---------------------------- MODULE Spec2Model ----------------------------
(***************************************************************************)
(* Monte Carlo estimation of pi: sequential sampler, OpenMP parallel       *)
(* sampler, CSV writer and driver, as found in trabajo_L4_G7.cpp.  The     *)
(* file holds two programs ("variants"):                                   *)
(*   variant 1 (lines 1-324):   8 threads, one std::mt19937 per thread     *)
(*   variant 2 (lines 326-548): 4 threads, srand(xi[tid]) and rand()       *)
(*                                                                         *)
(* Abstractions, all stated here:                                          *)
(*  - a pseudo-random generator is a deterministic state machine (a linear *)
(*    congruential step modulo GenMod); seeding sets its state, a draw     *)
(*    advances it and returns it;                                          *)
(*  - wall-clock values are not modelled, only which stopwatch is running; *)
(*  - a CSV row keeps its discrete fields (samples, method, threads);      *)
(*  - the built-in sample sizes are scaled down (Escala).                  *)
(***************************************************************************)
EXTENDS Integers, Sequences, FiniteSets, TLC

(* ------------------------------ bounds --------------------------------- *)
\* modulus of the model generators (their outputs are 0 .. GenMod-1)
GenMod == 8
\* largest scaled sample size of the built-in lists
MaxMuestra == 2
\* cap on the trials one sampler call is followed for
MaxIter == 3
\* most opens of the output file that fail in one run
MaxFallos == 2

(* ------------------------- program constants --------------------------- *)
NumHilos1 == 8
NumHilos2 == 4
\* 0x9e3779b9 as two 16-bit halves (0x9e37, 0x79b9)
AureaHi == 40503
AureaLo == 31161
\* xi[j] = rand() % 10000 + 1
ModSemilla == 10000
Base16 == 65536

Min(a, b) == IF a < b THEN a ELSE b

RECURSIVE SumaFun(_, _)
SumaFun(f, S) ==
    IF S = {} THEN 0
    ELSE LET e == CHOOSE e \in S : TRUE IN f[e] + SumaFun(f, S \ {e})

(* ------------------- 32-bit words as <<hi16, lo16>> -------------------- *)
RECURSIVE XorBits(_, _, _)
XorBits(a, b, n) ==
    IF n = 0 THEN 0
    ELSE (((a % 2) + (b % 2)) % 2) + 2 * XorBits(a \div 2, b \div 2, n - 1)

Xor32(u, v) == << XorBits(u[1], v[1], 16), XorBits(u[2], v[2], 16) >>

\* (k * 0x9e3779b9) mod 2^32 for a small unsigned k
MulAurea(k) ==
    LET lo == k * AureaLo
        hi == k * AureaHi + (lo \div Base16)
    IN  << hi % Base16, lo % Base16 >>

\* unsigned int seed = seed_base ^ (static_cast<unsigned int>(tid) + 1) * 0x9e3779b9;
\* ("*" binds tighter than "^")
ThreadSeed_sin_tid(seed_base, tid) == Xor32(seed_base, MulAurea(1))
ThreadSeed(seed_base, tid) == Xor32(seed_base, MulAurea(tid + 1))

(* --------------------------- generators -------------------------------- *)
\* one step of a generator: the new state is also the value drawn
GenNext(s) == (5 * s + 3) % GenMod
\* RAND_MAX of the model rand(): its largest output
RandMax == GenMod - 1
\* srand(seed)
Srand(seed) == seed % GenMod
\* std::mt19937 gen(seed), seed a 32-bit word
MtSeed(w) == ((w[1] % GenMod) * (Base16 % GenMod) + w[2]) % GenMod

\* x = rand()/RAND_MAX, y likewise:  x*x + y*y <= 1.0
HitRand(rx, ry) == rx * rx + ry * ry <= RandMax * RandMax
\* x = dis(gen) in [0,1), y likewise:  x*x + y*y <= 1.0
HitMt(rx, ry) == rx * rx + ry * ry <= GenMod * GenMod

\* ++count when the point is inside
Incrementa_doble(c, hit) == IF hit THEN c + 2 ELSE c
Incrementa(c, hit) == IF hit THEN c + 1 ELSE c

\* resultado.pi = 4.0 * count / samples, kept as the fraction <<4*count, samples>>
Pi(c, n) == << 4 * c, n >>

(* ------------------- 64-bit comparison of the loops -------------------- *)
\* a long long as four 16-bit limbs of its two's complement, high limb first
ToU64(n) ==
    LET ext == IF n < 0 THEN Base16 - 1 ELSE 0
    IN  << ext, ext, (n \div Base16) % Base16, n % Base16 >>

RECURSIVE LexLess(_, _)
LexLess(a, b) ==
    IF a = << >> THEN FALSE
    ELSE IF Head(a) # Head(b) THEN Head(a) < Head(b)
    ELSE LexLess(Tail(a), Tail(b))

\* for (i = 0; i < samples; ++i), i unsigned long long: samples is converted
SeqLoopCond(i, n) == LexLess(ToU64(i), ToU64(n))
\* for (i = 0; i < samples; ++i), i long long: a signed comparison
ParLoopCond(i, n) == i < n

(* --------------------------- command line ------------------------------ *)
Digitos == [c \in {"0", "1", "2", "3", "4", "5", "6", "7", "8", "9"} |->
              CASE c = "0" -> 0 [] c = "1" -> 1 [] c = "2" -> 2 [] c = "3" -> 3
                [] c = "4" -> 4 [] c = "5" -> 5 [] c = "6" -> 6 [] c = "7" -> 7
                [] c = "8" -> 8 [] c = "9" -> 9]

RECURSIVE ValorDigitos(_, _)
ValorDigitos(s, acc) ==
    IF s = << >> \/ Head(s) \notin DOMAIN Digitos THEN acc
    ELSE ValorDigitos(Tail(s), 10 * acc + Digitos[Head(s)])

\* atoll: optional sign, then the leading digits; 0 when there are none
Atoll(s) ==
    IF s = << >> THEN 0
    ELSE IF Head(s) = "-" THEN 0 - ValorDigitos(Tail(s), 0)
    ELSE IF Head(s) = "+" THEN ValorDigitos(Tail(s), 0)
    ELSE ValorDigitos(s, 0)

\* argv[1..] of the runs followed
Argumentos ==
    { << >>,
      << <<"2">> >>,
      << <<"0">> >>,
      << <<"-", "1">> >>,
      << <<"1", "x">> >>,
      << <<"2">>, <<"1">> >> }

(* ------------------------- built-in sample sizes ----------------------- *)
Escala(n) == Min(n \div 1000, MaxMuestra)

TamanosReales(v) ==
    IF v = 1
    THEN << 1000, 5000, 10000, 50000, 100000, 500000, 1000000, 5000000,
            10000000, 50000000 >>
    ELSE << 3000, 300000, 3000000 >>

\* long long tamanos_muestra[] = {...}, scaled
TamanosMuestra(v) ==
    [k \in 1..Len(TamanosReales(v)) |-> Escala(TamanosReales(v)[k])]


\* int num_threads = 8;  /  int num_threads = 4;
NumThreads(v) == IF v = 1 THEN NumHilos1 ELSE NumHilos2

\* if (argc > 1) num_pruebas = 1;
NumPruebas_lista(argc, n) == n
NumPruebas(argc, n) == IF argc > 1 THEN 1 ELSE n

(* ------------------------------ inputs --------------------------------- *)
\* values of std::random_device (32-bit words)
SeedBases == { <<0, 0>>, <<65535, 65535>>, <<4660, 22136>> }
\* values of time(NULL)
Tiempos == { 1700000000, 1700000001 }
\* thread limits of the environment (OMP_THREAD_LIMIT)
LimitesHilos == { 1, 2, 8 }
\* runs with a limit above LimiteCorto are followed for these arguments only
LimiteCorto == 2
ArgumentosEquipo == { << <<"2">> >>, << <<"0">> >> }
\* whose state rand()/srand() use.  The C library decides: one state per
\* process, each call under a lock ("global"), or one state per thread
\* ("por_hilo").  A library with one state and no lock makes the concurrent
\* calls a data race; its runs add lost updates to those of "global".
RandImpls == { "global", "por_hilo" }

Cabecera == << "Samples;Metodo;Hilos;Valor Pi;Tiempo (s);Tiempo (ms);Tiempo (us)" >>
Fila(r) == << r.samples, IF r.es_paralelo THEN "Paralelo" ELSE "Secuencial", r.num_hilos >>
\* what the output file may hold before the run
ArchivosPrevios ==
    { << >>, << Cabecera, <<7, "Secuencial", 1>>, <<7, "Paralelo", 4>> >> }

Hilos == 0 .. (NumHilos1 - 1)
SinResultado == [pi |-> <<0, 0>>, samples |-> 0, es_paralelo |-> FALSE, num_hilos |-> 0]
SinSemilla == << >>

VARIABLES
    variante,               \* which of the two programs runs
    argv,                   \* command-line arguments after the program name
    limite_hilos,           \* thread limit of the environment
    rand_impl,              \* rand() state: per process or per thread
    pc,                     \* position of the main thread
    tamanos_muestra, num_pruebas, idx, samples,        \* main
    rand_st,                \* state of rand(), by slot
    seq_i, seq_count,       \* montecarlo_secuencial
    resultado_secuencial, resultado_paralelo,
    cronometro,             \* which sampler's stopwatch is running
    count, num_threads, seed_base, xi,                 \* montecarlo_paralelo
    nthreads, reparto, wpc, seed, gen, wx, partial, hechas,  \* the parallel region
    accesos,                \* uses of generator state in the region:
                            \* <<worker, object, "semilla" (seeding) or "bucle" (in the loop)>>
    archivo,                \* rows of the output file
    aperturas,              \* result of archivo.is_open(), call by call
    traza,                  \* calls and returns of the three routines, in order
    ret                     \* return value of main

vars == << variante, argv, limite_hilos, rand_impl, pc, tamanos_muestra,
           num_pruebas, idx, samples, rand_st, seq_i, seq_count,
           resultado_secuencial, resultado_paralelo, cronometro, count,
           num_threads, seed_base, xi, nthreads, reparto, wpc, seed, gen, wx,
           partial, hechas, accesos, archivo, traza, aperturas, ret >>

entorno == << variante, argv, limite_hilos, rand_impl >>
v_main == << tamanos_muestra, num_pruebas, idx, samples >>
v_seq == << seq_i, seq_count >>
v_res == << resultado_secuencial, resultado_paralelo >>
v_par == << count, num_threads, seed_base, xi >>
v_reg == << nthreads, reparto, wpc, seed, gen, wx, partial, hechas, accesos >>
v_out == << archivo, aperturas, ret >>

\* values of the region's variables outside a parallel region
Ociosos == [w \in Hilos |-> "idle"]
Ceros == [w \in Hilos |-> 0]
Ninguna == [w \in Hilos |-> {}]
SinSemillas == [w \in Hilos |-> SinSemilla]

Init ==
    /\ variante \in {1, 2}
    /\ limite_hilos \in LimitesHilos
    /\ argv \in (IF limite_hilos > LimiteCorto THEN ArgumentosEquipo ELSE Argumentos)
    /\ rand_impl \in (IF variante = 1 THEN {"global"} ELSE RandImpls)
    /\ pc = "main_args"
    /\ tamanos_muestra = TamanosMuestra(variante)
    /\ num_pruebas = Len(TamanosMuestra(variante))
    /\ idx = 0
    /\ samples = 0
    /\ rand_st = [t \in Hilos |-> Srand(1)]
    /\ seq_i = 0 /\ seq_count = 0
    /\ resultado_secuencial = SinResultado
    /\ resultado_paralelo = SinResultado
    /\ cronometro = "parado"
    /\ count = 0 /\ num_threads = 0 /\ seed_base = SinSemilla /\ xi = << >>
    /\ nthreads = 0 /\ reparto = << >> /\ wpc = Ociosos /\ seed = SinSemillas /\ gen = Ceros
    /\ wx = Ceros /\ partial = Ceros /\ hechas = Ninguna /\ accesos = {}
    /\ archivo \in (IF limite_hilos > LimiteCorto THEN { << >> } ELSE ArchivosPrevios)
    /\ traza = << >>
    /\ aperturas = << >>
    /\ ret = -1

(* ------------------------------- main ---------------------------------- *)
\* lines 288-295 / 514-520
Main_Args ==
    /\ pc = "main_args"
    /\ LET argc == Len(argv) + 1 IN
        /\ tamanos_muestra' =
              IF argc > 1 THEN [tamanos_muestra EXCEPT ![1] = Atoll(argv[1])]
              ELSE tamanos_muestra
        /\ num_pruebas' = NumPruebas(argc, num_pruebas)
    /\ idx' = 0
    /\ pc' = "main_loop"
    /\ UNCHANGED << entorno, samples, rand_st, v_seq, v_res, cronometro, v_par,
                    v_reg, v_out, traza >>

\* lines 302-307 / 525-530: loop test, samples, call of montecarlo_secuencial
Main_Loop ==
    /\ pc = "main_loop"
    /\ idx < num_pruebas
    /\ samples' = tamanos_muestra[idx + 1]
    /\ traza' = Append(traza, <<"seq_call", samples'>>)
    /\ pc' = "seq_inicio"
    /\ UNCHANGED << entorno, tamanos_muestra, num_pruebas, idx, rand_st, v_seq,
                    v_res, cronometro, v_par, v_reg, v_out >>

\* lines 320-323 / 544-547
Main_Return ==
    /\ pc = "main_loop"
    /\ ~(idx < num_pruebas)
    /\ ret' = 0
    /\ pc' = "done"
    /\ UNCHANGED << entorno, v_main, rand_st, v_seq, v_res, cronometro, v_par,
                    v_reg, archivo, aperturas, traza >>

(* ------------------------ montecarlo_secuencial ------------------------ *)
\* lines 58-70 / 346-356
Seq_Inicio ==
    /\ pc = "seq_inicio"
    /\ seq_count' = 0
    /\ seq_i' = 0
    /\ cronometro' = "secuencial"
    /\ pc' = "seq_loop"
    /\ UNCHANGED << entorno, v_main, rand_st, v_res, v_par, v_reg, v_out, traza >>

\* lines 73-85 / 358-366: one trial
Seq_Trial ==
    /\ pc = "seq_loop"
    /\ SeqLoopCond(seq_i, samples)
    /\ seq_i < MaxIter
    /\ LET rx == GenNext(rand_st[0])
           ry == GenNext(rx)
       IN  /\ rand_st' = [rand_st EXCEPT ![0] = ry]
           /\ seq_count' = Incrementa(seq_count, HitRand(rx, ry))
    /\ seq_i' = seq_i + 1
    /\ UNCHANGED << entorno, pc, v_main, v_res, cronometro, v_par, v_reg, v_out,
                    traza >>

\* lines 88-107 / 368-385: loop exit, stopwatch, pi, return
Seq_Fin ==
    /\ pc = "seq_loop"
    /\ ~SeqLoopCond(seq_i, samples)
    /\ cronometro' = "parado"
    /\ resultado_secuencial' =
          [pi |-> Pi(seq_count, samples), samples |-> samples,
           es_paralelo |-> FALSE, num_hilos |-> 1]
    /\ seq_i' = 0 /\ seq_count' = 0
    /\ traza' = Append(Append(traza, <<"seq_ret", samples>>), <<"par_call", samples>>)
    /\ pc' = "par_setup"
    /\ UNCHANGED << entorno, v_main, rand_st, resultado_paralelo, v_par, v_reg,
                    v_out >>


(* ------------------------- montecarlo_paralelo ------------------------- *)
\* order of the statements before the parallel region:
\*   variant 1: setup, inicio = omp_get_wtime(), seed_base = rd(), region
\*   variant 2: setup, srand(time(NULL)), the xi loop, inicio = omp_get_wtime(), region
SigPar_cronometro_primero(v, p) ==
    CASE p = "par_setup" -> "par_inicio"
      [] p = "par_inicio" -> IF v = 1 THEN "par_seed_base" ELSE "par_srand"
      [] p = "par_srand" -> "par_xi"
      [] OTHER -> "par_fork"
SigPar(v, p) ==
    IF v = 1
    THEN CASE p = "par_setup" -> "par_inicio"
           [] p = "par_inicio" -> "par_seed_base"
           [] OTHER -> "par_fork"
    ELSE CASE p = "par_setup" -> "par_srand"
           [] p = "par_srand" -> "par_xi"
           [] p = "par_xi" -> "par_inicio"
           [] OTHER -> "par_fork"

\* lines 117-131 / 391-403
Par_Setup ==
    /\ pc = "par_setup"
    /\ count' = 0
    /\ num_threads' = NumThreads(variante)
    /\ pc' = SigPar(variante, "par_setup")
    /\ UNCHANGED << entorno, v_main, rand_st, v_seq, v_res, cronometro, seed_base,
                    xi, v_reg, v_out, traza >>

\* line 134 / 412
Par_Inicio ==
    /\ pc = "par_inicio"
    /\ cronometro' = "paralelo"
    /\ pc' = SigPar(variante, "par_inicio")
    /\ UNCHANGED << entorno, v_main, rand_st, v_seq, v_res, v_par, v_reg, v_out,
                    traza >>

\* lines 137-138
Par_SeedBase ==
    /\ pc = "par_seed_base"
    /\ seed_base' \in SeedBases
    /\ pc' = SigPar(variante, "par_seed_base")
    /\ UNCHANGED << entorno, v_main, rand_st, v_seq, v_res, cronometro, count,
                    num_threads, xi, v_reg, v_out, traza >>

\* lines 406-407
Par_Srand ==
    /\ pc = "par_srand"
    /\ xi' = << >>
    /\ \E t \in Tiempos : rand_st' = [rand_st EXCEPT ![0] = Srand(t)]
    /\ pc' = SigPar(variante, "par_srand")
    /\ UNCHANGED << entorno, v_main, v_seq, v_res, cronometro, count, num_threads,
                    seed_base, v_reg, v_out, traza >>

\* lines 408-410: one turn of the loop; xi is unsigned short
Par_Xi ==
    /\ pc = "par_xi"
    /\ Len(xi) < num_threads
    /\ LET r == GenNext(rand_st[0]) IN
        /\ rand_st' = [rand_st EXCEPT ![0] = r]
        /\ xi' = Append(xi, ((r % ModSemilla) + 1) % Base16)
    /\ UNCHANGED << entorno, pc, v_main, v_seq, v_res, cronometro, count,
                    num_threads, seed_base, v_reg, v_out, traza >>

\* line 408: exit of the loop
Par_XiFin ==
    /\ pc = "par_xi"
    /\ ~(Len(xi) < num_threads)
    /\ pc' = SigPar(variante, "par_xi")
    /\ UNCHANGED << entorno, v_main, rand_st, v_seq, v_res, cronometro, v_par,
                    v_reg, v_out, traza >>

(* ------------------------- the parallel region ------------------------- *)
\* iterations of  for (i = 0; i < samples; ++i)
Iteraciones(n) == { i \in 0 .. (MaxIter - 1) : ParLoopCond(i, n) }

\* size of the team: the request of omp_set_num_threads, within the limit
Equipo(pedidos, limite) == Min(pedidos, limite)

\* #pragma omp for: the iterations that worker w executes
MisIteraciones_todas(w, rep) == DOMAIN rep
MisIteraciones(w, rep) == { i \in DOMAIN rep : rep[i] = w }

Pendientes(w) == MisIteraciones(w, reparto) \ hechas[w]
Primera(S) == CHOOSE i \in S : \A j \in S : i <= j

\* reduction(+:count): a private copy joins the shared variable
ReductionCombine_pisa(c, p) == p
ReductionCombine(c, p) == c + p

\* rand() and srand() of worker w work on this slot
RandSlot(w) == IF rand_impl = "global" THEN 0 ELSE w

\* state of worker w when the team starts.  In variant 1 lines 146-161 (tid,
\* seed, gen, dis) touch only objects of the worker and read seed_base, which
\* nothing writes during the region: they are taken together with the start
\* of the team.  In variant 2 srand(xi[tid]) writes the state of rand() and
\* is a step of its own (W_Start).
Arranque(v, w, n) ==
    IF ~(w < n) THEN "idle" ELSE IF v = 1 THEN "loop" ELSE "start"

\* lines 141-161 / 414: the team starts; the runtime assigns the iterations
Par_Fork ==
    /\ pc = "par_fork"
    /\ nthreads' = Equipo(num_threads, limite_hilos)
    /\ reparto' \in [Iteraciones(samples) -> 0 .. (nthreads' - 1)]
    /\ wpc' = [w \in Hilos |-> Arranque(variante, w, nthreads')]
    /\ seed' = [w \in Hilos |->
                  IF variante = 1 /\ w < nthreads'
                  THEN ThreadSeed(seed_base, w) ELSE SinSemilla]
    /\ gen' = [w \in Hilos |->
                 IF variante = 1 /\ w < nthreads' THEN MtSeed(seed'[w]) ELSE 0]
    /\ accesos' = IF variante = 1
                  THEN { <<w, <<"gen", w>>, "semilla">> : w \in 0 .. (nthreads' - 1) }
                  ELSE {}
    /\ partial' = Ceros
    /\ hechas' = Ninguna
    /\ pc' = "par_region"
    /\ UNCHANGED << entorno, v_main, rand_st, v_seq, v_res, cronometro, v_par,
                    wx, v_out, traza >>

\* lines 417-418: srand(xi[tid])
W_Start(w) ==
    /\ pc = "par_region"
    /\ variante = 2
    /\ wpc[w] = "start"
    /\ wpc' = [wpc EXCEPT ![w] = "loop"]
    /\ rand_st' = [rand_st EXCEPT ![RandSlot(w)] = Srand(xi[w + 1])]
    /\ accesos' = accesos \cup { <<w, <<"rand", RandSlot(w)>>, "semilla">> }
    /\ UNCHANGED << entorno, pc, v_main, v_seq, v_res, cronometro, v_par, nthreads,
                    reparto, seed, gen, wx, partial, hechas, v_out, traza >>

\* lines 166-175: one iteration, on the worker's own generator
W_Trial(w) ==
    /\ pc = "par_region"
    /\ variante = 1
    /\ wpc[w] = "loop"
    /\ Pendientes(w) # {}
    /\ LET i == Primera(Pendientes(w))
           rx == GenNext(gen[w])
           ry == GenNext(rx)
       IN  /\ gen' = [gen EXCEPT ![w] = ry]
           /\ partial' = [partial EXCEPT ![w] = Incrementa(@, HitMt(rx, ry))]
           /\ hechas' = [hechas EXCEPT ![w] = @ \cup {i}]
    /\ accesos' = accesos \cup { <<w, <<"gen", w>>, "bucle">> }
    /\ UNCHANGED << entorno, pc, v_main, rand_st, v_seq, v_res, cronometro, v_par,
                    nthreads, reparto, wpc, seed, wx, v_out, traza >>

\* line 422: x = rand()/RAND_MAX
W_DrawX(w) ==
    /\ pc = "par_region"
    /\ variante = 2
    /\ wpc[w] = "loop"
    /\ Pendientes(w) # {}
    /\ LET rx == GenNext(rand_st[RandSlot(w)]) IN
        /\ rand_st' = [rand_st EXCEPT ![RandSlot(w)] = rx]
        /\ wx' = [wx EXCEPT ![w] = rx]
    /\ wpc' = [wpc EXCEPT ![w] = "drawn_x"]
    /\ accesos' = accesos \cup { <<w, <<"rand", RandSlot(w)>>, "bucle">> }
    /\ UNCHANGED << entorno, pc, v_main, v_seq, v_res, cronometro, v_par, nthreads,
                    reparto, seed, gen, partial, hechas, v_out, traza >>

\* lines 423-426: y = rand()/RAND_MAX, the test, ++count
W_DrawY(w) ==
    /\ pc = "par_region"
    /\ variante = 2
    /\ wpc[w] = "drawn_x"
    /\ LET i == Primera(Pendientes(w))
           ry == GenNext(rand_st[RandSlot(w)])
       IN  /\ rand_st' = [rand_st EXCEPT ![RandSlot(w)] = ry]
           /\ partial' = [partial EXCEPT ![w] = Incrementa(@, HitRand(wx[w], ry))]
           /\ hechas' = [hechas EXCEPT ![w] = @ \cup {i}]
    /\ wx' = [wx EXCEPT ![w] = 0]
    /\ wpc' = [wpc EXCEPT ![w] = "loop"]
    /\ accesos' = accesos \cup { <<w, <<"rand", RandSlot(w)>>, "bucle">> }
    /\ UNCHANGED << entorno, pc, v_main, v_seq, v_res, cronometro, v_par, nthreads,
                    reparto, seed, gen, v_out, traza >>

\* lines 165, 175 / 420, 427: the worker has no iteration left; its private
\* count is added to the shared one
W_Reduce(w) ==
    /\ pc = "par_region"
    /\ wpc[w] = "loop"
    /\ Pendientes(w) = {}
    /\ count' = ReductionCombine(count, partial[w])
    /\ wpc' = [wpc EXCEPT ![w] = "done"]
    /\ UNCHANGED << entorno, pc, v_main, rand_st, v_seq, v_res, cronometro,
                    num_threads, seed_base, xi, nthreads, reparto, seed, gen, wx,
                    partial, hechas, accesos, v_out, traza >>

\* the team has joined
Unidos(estados, n) == \A w \in 0 .. (n - 1) : estados[w] = "done"

\* line 178 / 428: end of the parallel region
Par_Join ==
    /\ pc = "par_region"
    /\ Unidos(wpc, nthreads)
    /\ pc' = "par_fin"
    /\ UNCHANGED << entorno, v_main, rand_st, v_seq, v_res, cronometro, v_par,
                    v_reg, v_out, traza >>

\* lines 181-201 / 430-452: stopwatch, pi, delete[] xi, return
Par_Fin ==
    /\ pc = "par_fin"
    /\ cronometro' = "parado"
    /\ resultado_paralelo' =
          [pi |-> Pi(count, samples), samples |-> samples,
           es_paralelo |-> TRUE, num_hilos |-> num_threads]
    /\ count' = 0 /\ num_threads' = 0 /\ seed_base' = SinSemilla /\ xi' = << >>
    /\ nthreads' = 0 /\ reparto' = << >> /\ wpc' = Ociosos /\ seed' = SinSemillas
    /\ gen' = Ceros
    /\ wx' = Ceros /\ partial' = Ceros /\ hechas' = Ninguna /\ accesos' = {}
    /\ traza' = Append(Append(traza, <<"par_ret", samples>>), <<"csv_call", samples>>)
    /\ pc' = "csv"
    /\ UNCHANGED << entorno, v_main, rand_st, v_seq, resultado_secuencial, v_out >>

(* ------------------------------ guardar_csv ---------------------------- *)
\* if (primera_escritura) archivo << header
EscribeCabecera_siempre(primera) == TRUE
EscribeCabecera(primera) == primera

\* content of the file after guardar_csv
TrasGuardar_sin_comprobar(f, abierto, primera, s, p) ==
    (IF primera THEN << >> ELSE f)
        \o (IF EscribeCabecera(primera) THEN << Cabecera >> ELSE << >>)
        \o << Fila(s), Fila(p) >>
TrasGuardar(f, abierto, primera, s, p) ==
    IF ~abierto THEN f
    ELSE (IF primera THEN << >> ELSE f)
            \o (IF EscribeCabecera(primera) THEN << Cabecera >> ELSE << >>)
            \o << Fila(s), Fila(p) >>

\* opens that failed so far
Fallos(aps) == Cardinality({ k \in 1 .. Len(aps) : ~aps[k] })

\* lines 212-265 / 456-507, and the end of the loop body (317-318 / 541-542)
Guardar_Csv ==
    /\ pc = "csv"
    /\ \E abierto \in BOOLEAN :
        /\ abierto \/ Fallos(aperturas) < MaxFallos
        /\ archivo' = TrasGuardar(archivo, abierto, idx = 0,
                                  resultado_secuencial, resultado_paralelo)
        /\ aperturas' = Append(aperturas, abierto)
    /\ traza' = Append(traza, <<"csv_ret", samples>>)
    /\ idx' = idx + 1
    /\ pc' = "main_loop"
    /\ UNCHANGED << entorno, tamanos_muestra, num_pruebas, samples, rand_st, v_seq,
                    v_res, cronometro, v_par, v_reg, ret >>

Next ==
    \/ Main_Args \/ Main_Loop \/ Main_Return
    \/ Seq_Inicio \/ Seq_Trial \/ Seq_Fin
    \/ Par_Setup \/ Par_Inicio \/ Par_SeedBase \/ Par_Srand \/ Par_Xi \/ Par_XiFin
    \/ Par_Fork \/ Par_Join \/ Par_Fin
    \/ \E w \in Hilos : W_Start(w) \/ W_Trial(w) \/ W_DrawX(w) \/ W_DrawY(w) \/ W_Reduce(w)
    \/ Guardar_Csv

Spec == Init /\ [][Next]_vars


(* ======================== properties of the code ======================= *)
TeamW == 0 .. (nthreads - 1)
\* trials executed by worker w
Trials(w) == Cardinality(hechas[w])
\* how many workers executed iteration i
Veces(i) == Cardinality({ w \in TeamW : i \in hechas[w] })

\* C1: when the parallel sampler computes pi (the region has ended), every
\* worker has finished its share and the shared count is exactly the sum of
\* the workers' partial hit counts; this for every N >= 0, every team size,
\* every assignment of iterations and every interleaving.
C1_ReduccionExacta ==
    pc = "par_fin" =>
        /\ \A w \in TeamW : wpc[w] = "done" /\ Pendientes(w) = {}
        /\ count = SumaFun(partial, TeamW)

C1_Testigo ==
    /\ pc = "par_fin"
    /\ Cardinality({ w \in TeamW : partial[w] > 0 }) >= 2
    /\ count >= 2

\* C2: for N > 0, each iteration 0..N-1 is executed by exactly one worker, so
\* at the end of the region the per-worker trial counts add up to N.
C2_CadaIteracionUnaVez ==
    (samples > 0 /\ pc \in {"par_region", "par_fin"}) =>
        /\ \A w \in TeamW : hechas[w] \subseteq Iteraciones(samples)
        /\ \A i \in Iteraciones(samples) : Veces(i) <= 1
        /\ pc = "par_fin" =>
              /\ \A i \in 0 .. (samples - 1) : Veces(i) = 1
              /\ SumaFun([w \in TeamW |-> Trials(w)], TeamW) = samples

C2_Testigo ==
    /\ pc = "par_fin"
    /\ nthreads = NumHilos1
    /\ samples = 2
    /\ Cardinality({ w \in TeamW : Trials(w) = 1 }) = 2

\* C3: for N > 0 the hit counter of either sampler is never negative and never
\* above the number of trials executed so far, which is never above N; the
\* estimate 4*count/N that is returned lies in [0, 4].
EnRango(r) == r.samples > 0 => (r.pi[2] = r.samples /\ 0 <= r.pi[1] /\ r.pi[1] <= 4 * r.pi[2])

C3_ContadorAcotado ==
    /\ (samples > 0 /\ pc = "seq_loop") =>
          (0 <= seq_count /\ seq_count <= seq_i /\ seq_i <= samples)
    /\ (samples > 0 /\ pc \in {"par_region", "par_fin"}) =>
          /\ \A w \in TeamW : 0 <= partial[w] /\ partial[w] <= Trials(w)
          /\ 0 <= count
          /\ count <= SumaFun([w \in TeamW |-> IF wpc[w] = "done" THEN Trials(w) ELSE 0], TeamW)
          /\ SumaFun([w \in TeamW |-> Trials(w)], TeamW) <= samples
    /\ EnRango(resultado_secuencial)
    /\ EnRango(resultado_paralelo)

C3_Testigo ==
    /\ pc = "csv"
    /\ samples > 0
    /\ resultado_secuencial.pi[1] > 0
    /\ resultado_paralelo.pi[1] > 0


(* ------------------------------ the writer ----------------------------- *)
HuboFallo == \E k \in 1 .. Len(aperturas) : ~aperturas[k]
\* the step is a call of guardar_csv whose open gave this result
PasoGuardar(abierto) ==
    /\ pc = "csv"
    /\ Len(aperturas') = Len(aperturas) + 1
    /\ aperturas'[Len(aperturas')] = abierto

FilaSecuencial(n) == << n, "Secuencial", 1 >>
FilaParalela(n) == << n, "Paralelo", NumThreads(variante) >>

RECURSIVE FilasDe(_)
FilasDe(tams) ==
    IF tams = << >> THEN << >>
    ELSE << FilaSecuencial(Head(tams)), FilaParalela(Head(tams)) >> \o FilasDe(Tail(tams))

\* the sample sizes the run was asked for
Seleccion ==
    IF Len(argv) >= 1 THEN << Atoll(argv[1]) >> ELSE TamanosMuestra(variante)

\* C4: a call with primera_escritura = true whose open succeeds leaves exactly
\* the header, the sequential row and the parallel row, whatever the file held;
\* a call with primera_escritura = false whose open succeeds keeps the content
\* and adds the two rows and no header.  So a run over k sizes in which every
\* open succeeded ends with one header, first, and 2k rows in size order.
C4_EscrituraCsv ==
    /\ [][ PasoGuardar(TRUE) =>
             IF idx = 0
             THEN archivo' = << Cabecera, FilaSecuencial(samples), FilaParalela(samples) >>
             ELSE archivo' = archivo \o << FilaSecuencial(samples), FilaParalela(samples) >> ]_vars
    /\ [](( pc = "done" /\ ~HuboFallo ) =>
             archivo = << Cabecera >> \o FilasDe(Seleccion))

C4_Testigo ==
    /\ pc = "done"
    /\ ~HuboFallo
    /\ Len(Seleccion) = 10
    /\ Len(archivo) = 21

\* C5: a call of guardar_csv whose open fails changes nothing in the file and
\* the driver goes on: every selected size still gets its two sampler calls
\* and its writer call, the run is never stuck before the end, and main
\* returns 0.
Llamadas(tipo) == Cardinality({ k \in 1 .. Len(traza) : traza[k][1] = tipo })

C5_FalloDeApertura ==
    /\ [][ PasoGuardar(FALSE) =>
             (archivo' = archivo /\ idx' = idx + 1 /\ pc' = "main_loop") ]_vars
    /\ [](HuboFallo => (pc = "done" \/ ENABLED Next))
    /\ [](( pc = "done" /\ HuboFallo ) =>
             /\ ret = 0
             /\ Llamadas("seq_call") = Len(Seleccion)
             /\ Llamadas("par_call") = Len(Seleccion)
             /\ Llamadas("csv_call") = Len(Seleccion)
             /\ Len(aperturas) = Len(Seleccion))

C5_Testigo ==
    /\ pc = "done"
    /\ ret = 0
    /\ Len(aperturas) = 3
    /\ ~aperturas[1] /\ aperturas[2] /\ ~aperturas[3]
    /\ archivo # << >>

\* C6: the driver handles exactly the selected sizes, once each, in list order
\* (the whole built-in list without an argument, the argument alone with
\* one); for each size the sequential sampler runs and returns, then the
\* parallel sampler, then the writer, before the next size starts.
EventosDe(n) ==
    << <<"seq_call", n>>, <<"seq_ret", n>>, <<"par_call", n>>, <<"par_ret", n>>,
       <<"csv_call", n>>, <<"csv_ret", n>> >>

RECURSIVE TrazaDe(_)
TrazaDe(tams) ==
    IF tams = << >> THEN << >> ELSE EventosDe(Head(tams)) \o TrazaDe(Tail(tams))

C6_OrdenDelDriver ==
    /\ Len(traza) <= Len(TrazaDe(Seleccion))
    /\ traza = SubSeq(TrazaDe(Seleccion), 1, Len(traza))
    /\ pc = "done" => traza = TrazaDe(Seleccion)

C6_Testigo ==
    /\ pc = "done"
    /\ argv = << >>
    /\ variante = 1
    /\ Len(traza) = 60


(* ------------------------- generators and seeds ------------------------ *)
\* C7: the generator state a worker uses inside the parallel loop is used by
\* that worker only: no other worker of the region reads or writes it (claimed
\* for the per-thread std::mt19937 and for srand(xi[tid]) with rand()).
C7_GeneradorPropio ==
    \A a \in accesos : \A b \in accesos :
        (a[3] = "bucle" /\ a[2] = b[2]) => a[1] = b[1]

\* hits of n trials drawn one after the other from a generator in state s
RECURSIVE HitsDesde(_, _, _)
HitsDesde(s, n, v) ==
    IF n = 0 THEN 0
    ELSE LET rx == GenNext(s)
             ry == GenNext(rx)
             h == IF v = 1 THEN HitMt(rx, ry) ELSE HitRand(rx, ry)
         IN  (IF h THEN 1 ELSE 0) + HitsDesde(ry, n - 1, v)

\* the total of the schedule in which the workers run one after the other:
\* each draws all its trials from the generator it has just seeded
SemillaDe(w) ==
    IF variante = 1 THEN MtSeed(seed[w]) ELSE Srand(xi[w + 1])
TotalEnSerie ==
    SumaFun([w \in TeamW |->
               HitsDesde(SemillaDe(w), Cardinality({ i \in DOMAIN reparto : reparto[i] = w }),
                         variante)],
            TeamW)

\* C8: with N, the seeds and the assignment of iterations fixed, the total
\* hit count is the same under every interleaving of the workers: every run
\* ends with the total of the run in which the workers go one after the other.
C8_MismoTotal == pc = "par_fin" => count = TotalEnSerie

\* 32-bit words tried as seed_base besides the ones the runs draw
MediasPalabras == { 0, 1, 32768, 40503, 65535 }
BasesAmplias == { <<h, l>> : h \in MediasPalabras, l \in MediasPalabras }
SemillasDistintas(b) ==
    \A t1 \in Hilos : \A t2 \in Hilos :
        t1 < t2 => ThreadSeed(b, t1) # ThreadSeed(b, t2)

\* C9: in the std::mt19937 variant the seeds seed_base ^ ((tid + 1) * 0x9e3779b9),
\* computed modulo 2^32, of two different thread ids in 0..7 differ, whatever
\* the seed base.
C9_SemillasDistintas ==
    /\ \A w1 \in TeamW : \A w2 \in TeamW :
          (variante = 1 /\ w1 # w2) => seed[w1] # seed[w2]
    /\ (variante = 1 /\ pc = "par_fork" /\ idx = 0) =>
          \A b \in BasesAmplias \cup {seed_base} : SemillasDistintas(b)

C9_Testigo ==
    /\ variante = 1
    /\ pc = "par_region"
    /\ nthreads = NumHilos1
    /\ seed_base = <<65535, 65535>>
    /\ seed[0] = <<25032, 34374>>

(* ------------------------------ stopwatch ------------------------------ *)
SemillasListas ==
    IF variante = 1 THEN seed_base # SinSemilla ELSE Len(xi) = num_threads

\* C10 as claimed: in both variants the start time of the parallel sampler is
\* read after the seed base (variant 1) or the seed array xi (variant 2) has
\* been produced.
C10_SemillasAntesDelCronometro == cronometro = "paralelo" => SemillasListas

\* C10 as amended: in variant 2 the seed array xi is complete, every entry in
\* 1..10000, before the start time is read; in variant 1 the start time is
\* read first and seed_base is drawn while the stopwatch runs.
C10_Corregido ==
    /\ (variante = 2 /\ cronometro = "paralelo") =>
          /\ Len(xi) = num_threads
          /\ \A j \in 1 .. Len(xi) : 1 <= xi[j] /\ xi[j] <= ModSemilla
    /\ (variante = 2 /\ pc \in {"par_srand", "par_xi"}) => cronometro = "parado"
    /\ (variante = 1 /\ seed_base # SinSemilla) => cronometro = "paralelo"
    /\ (variante = 1 /\ pc = "par_seed_base") => cronometro = "paralelo"

C10_Testigo ==
    /\ variante = 2
    /\ pc = "par_fork"
    /\ cronometro = "paralelo"
    /\ Len(xi) = NumHilos2

(* --------------------------- zero trial count -------------------------- *)
LlamadasConCero ==
    { k \in 1 .. Len(traza) :
        traza[k][1] \in {"seq_call", "par_call"} /\ traza[k][2] = 0 }

\* C11: whatever the command line, neither montecarlo_secuencial nor
\* montecarlo_paralelo is called with samples = 0, and no result holds a pi
\* that was divided by a zero trial count.
C11_SinCeroMuestras ==
    /\ LlamadasConCero = {}
    /\ resultado_secuencial # SinResultado => resultado_secuencial.pi[2] # 0
    /\ resultado_paralelo # SinResultado => resultado_paralelo.pi[2] # 0

(* ------------------------ trials of the two loops ---------------------- *)
\* the N trials a sampler is expected to run: N when N > 0, none otherwise
Esperados(n) == IF n > 0 THEN n ELSE 0

EnsayosParalelos == SumaFun([w \in Hilos |-> Trials(w)], Hilos)

\* C12: for every trial count N the driver passes, N <= 0 included, the
\* sequential loop and the parallel loop run the same number of trials: never
\* more than N (none when N <= 0) while they run, and exactly that many when
\* they leave the loop.
C12_MismosEnsayos ==
    /\ pc = "seq_loop" =>
          /\ seq_i <= Esperados(samples)
          /\ ~SeqLoopCond(seq_i, samples) => seq_i = Esperados(samples)
    /\ pc \in {"par_region", "par_fin"} =>
          EnsayosParalelos <= Esperados(samples)
    /\ pc = "par_fin" => EnsayosParalelos = Esperados(samples)

=============================================================================
